---------------------------- MODULE Spec2Model ----------------------------
(***************************************************************************)
(* A model of merge_tb_data (src/merge_tb_data.py): one run of the merge   *)
(* of two CSV files into one normalized table.  Every statement of the     *)
(* function body is one action; pc is the position of the run.             *)
(*                                                                         *)
(* Text is a sequence of character codes ("AB" is <<65, 66>>), so that     *)
(* parsing, formatting and the lexicographic order are computed.  A CSV    *)
(* file is [header, rows] with text cells.  A DataFrame is                 *)
(* [cols, dtypes, rows] with typed cells aligned to cols.                  *)
(*                                                                         *)
(* prev is the outcome of an earlier run of the script on the same input   *)
(* files, None in a first run.                                             *)
(*                                                                         *)
(* The reader of the written file, the dashboard (src/app.py), is modelled *)
(* in two places: the column renaming of load_data, and the custom query   *)
(* of the Interactive Data Explorer as a second state machine              *)
(* (SpecExplorer) over the variables query, step, evaluated, shown and     *)
(* query_results, which a run of the merge leaves as they are.             *)
(*                                                                         *)
(* pandas behaviour is modelled as of pandas 1.x/2.x.  The numeric dtypes  *)
(* int64 and float64 are tracked per column (merge consults them), but a   *)
(* numeric cell holds its integral value only: the trailing ".0" of a      *)
(* float rendering is not modelled.                                        *)
(***************************************************************************)
EXTENDS Integers, Sequences, FiniteSets, TLC

VARIABLES csv1, csv2, outFile, pc, err, df_new, df_old, merged, ret, prev

\* The dashboard's Interactive Data Explorer (app.py lines 842-893): the text of
\* the query box, the position in the script, whether explorer_df.query has
\* been called in this run of the script, the elements on the page, and the
\* local query_results ("unbound" until line 849 has assigned it).
VARIABLES query, step, evaluated, shown, query_results

explorer == <<query, step, evaluated, shown, query_results>>

vars == <<csv1, csv2, outFile, pc, err, df_new, df_old, merged, ret, prev,
          explorer>>

-----------------------------------------------------------------------------
(* Cells *)

\* A string cell.
Str(s) == [t |-> "str", s |-> s, n |-> 0]
\* A numeric cell (int64 or float64 column).
Num(n) == [t |-> "num", s |-> <<>>, n |-> n]
\* The float NaN that read_csv and the outer join put in for a missing value.
NaN == [t |-> "nan", s |-> <<>>, n |-> 0]
\* pd.NA, the marker the padding loop assigns.
PdNA == [t |-> "pdna", s |-> <<>>, n |-> 0]

\* pandas isna(): both markers are missing; 0 and '' are not.
IsNA(c) == c.t \in {"nan", "pdna"}

\* No file, no frame, no value.
None == [t |-> "none"]

-----------------------------------------------------------------------------
(* The column vocabulary *)

\* The dict of lines 9-32, as its items in order.
column_mapping_new ==
    << <<"country", "country">>, <<"iso2", "iso2">>, <<"iso3", "iso3">>,
       <<"iso_numeric", "iso_numeric">>, <<"g_whoregion", "region">>,
       <<"year", "year">>, <<"e_pop_num", "population">>,
       <<"e_inc_100k", "incidence_rate">>,
       <<"e_inc_100k_lo", "incidence_rate_lo">>,
       <<"e_inc_100k_hi", "incidence_rate_hi">>,
       <<"e_inc_num", "incidence_num">>,
       <<"e_inc_num_lo", "incidence_num_lo">>,
       <<"e_inc_num_hi", "incidence_num_hi">>,
       <<"e_tbhiv_prct", "hiv_in_tb_percent">>,
       <<"e_tbhiv_prct_lo", "hiv_in_tb_percent_lo">>,
       <<"e_tbhiv_prct_hi", "hiv_in_tb_percent_hi">>,
       <<"e_mort_exc_tbhiv_100k", "mort_rate_no_hiv">>,
       <<"e_mort_exc_tbhiv_100k_lo", "mort_rate_no_hiv_lo">>,
       <<"e_mort_exc_tbhiv_100k_hi", "mort_rate_no_hiv_hi">>,
       <<"c_cdr", "detection_rate">>, <<"c_cdr_lo", "detection_rate_lo">>,
       <<"c_cdr_hi", "detection_rate_hi">> >>

\* A mapping of the older names that sends Region to incidence_rate.
column_mapping_old_merged ==
    << <<"Country or territory name", "country">>,
       <<"ISO 2-character country/territory code", "iso2">>,
       <<"ISO 3-character country/territory code", "iso3">>,
       <<"ISO numeric country/territory code", "iso_numeric">>,
       <<"Region", "incidence_rate">>,
       <<"Year", "year">>,
       <<"Estimated total population number", "population">>,
       <<"Estimated incidence (all forms) per 100 000 population", "incidence_rate">>,
       <<"Estimated incidence (all forms) per 100 000 population, low bound", "incidence_rate_lo">>,
       <<"Estimated incidence (all forms) per 100 000 population, high bound", "incidence_rate_hi">>,
       <<"Estimated number of incident cases (all forms)", "incidence_num">>,
       <<"Estimated number of incident cases (all forms), low bound", "incidence_num_lo">>,
       <<"Estimated number of incident cases (all forms), high bound", "incidence_num_hi">>,
       <<"Estimated HIV in incident TB (percent)", "hiv_in_tb_percent">>,
       <<"Estimated HIV in incident TB (percent), low bound", "hiv_in_tb_percent_lo">>,
       <<"Estimated HIV in incident TB (percent), high bound", "hiv_in_tb_percent_hi">>,
       <<"Estimated mortality of TB cases (all forms, excluding HIV) per 100 000 population", "mort_rate_no_hiv">>,
       <<"Estimated mortality of TB cases (all forms, excluding HIV), per 100 000 population, low bound", "mort_rate_no_hiv_lo">>,
       <<"Estimated mortality of TB cases (all forms, excluding HIV), per 100 000 population, high bound", "mort_rate_no_hiv_hi">>,
       <<"Case detection rate (all forms), percent", "detection_rate">>,
       <<"Case detection rate (all forms), percent, low bound", "detection_rate_lo">>,
       <<"Case detection rate (all forms), percent, high bound", "detection_rate_hi">> >>

\* The dict of lines 34-57, as its items in order.
column_mapping_old ==
    << <<"Country or territory name", "country">>,
       <<"ISO 2-character country/territory code", "iso2">>,
       <<"ISO 3-character country/territory code", "iso3">>,
       <<"ISO numeric country/territory code", "iso_numeric">>,
       <<"Region", "region">>,
       <<"Year", "year">>,
       <<"Estimated total population number", "population">>,
       <<"Estimated incidence (all forms) per 100 000 population", "incidence_rate">>,
       <<"Estimated incidence (all forms) per 100 000 population, low bound", "incidence_rate_lo">>,
       <<"Estimated incidence (all forms) per 100 000 population, high bound", "incidence_rate_hi">>,
       <<"Estimated number of incident cases (all forms)", "incidence_num">>,
       <<"Estimated number of incident cases (all forms), low bound", "incidence_num_lo">>,
       <<"Estimated number of incident cases (all forms), high bound", "incidence_num_hi">>,
       <<"Estimated HIV in incident TB (percent)", "hiv_in_tb_percent">>,
       <<"Estimated HIV in incident TB (percent), low bound", "hiv_in_tb_percent_lo">>,
       <<"Estimated HIV in incident TB (percent), high bound", "hiv_in_tb_percent_hi">>,
       <<"Estimated mortality of TB cases (all forms, excluding HIV) per 100 000 population", "mort_rate_no_hiv">>,
       <<"Estimated mortality of TB cases (all forms, excluding HIV), per 100 000 population, low bound", "mort_rate_no_hiv_lo">>,
       <<"Estimated mortality of TB cases (all forms, excluding HIV), per 100 000 population, high bound", "mort_rate_no_hiv_hi">>,
       <<"Case detection rate (all forms), percent", "detection_rate">>,
       <<"Case detection rate (all forms), percent, low bound", "detection_rate_lo">>,
       <<"Case detection rate (all forms), percent, high bound", "detection_rate_hi">> >>

\* The list of lines 64-71.
final_columns ==
    << "country", "iso2", "iso3", "iso_numeric", "region", "year", "population",
       "incidence_rate", "incidence_rate_lo", "incidence_rate_hi",
       "incidence_num", "incidence_num_lo", "incidence_num_hi",
       "hiv_in_tb_percent", "hiv_in_tb_percent_lo", "hiv_in_tb_percent_hi",
       "mort_rate_no_hiv", "mort_rate_no_hiv_lo", "mort_rate_no_hiv_hi",
       "detection_rate", "detection_rate_lo", "detection_rate_hi" >>

\* The join key of line 83.
on == <<"iso3", "year">>

\* A join that keeps the matched rows only.
how_inner == "inner"

\* The join type of line 84.
how == "outer"

\* The suffixes of line 85.
suffixes == <<"_old", "_new">>

\* The elements of a sequence.
Range(s) == {s[i] : i \in 1..Len(s)}

\* col in df.columns, col in [...]
In(x, s) == x \in Range(s)

\* The position of the first occurrence of x in s (x is in s).
IndexOf(x, s) == CHOOSE i \in 1..Len(s) : s[i] = x /\ \A j \in 1..(i - 1) : s[j] # x

\* mapping.get(k, k) for a dict given as its items.
Lookup(mapping, k) ==
    IF \E i \in 1..Len(mapping) : mapping[i][1] = k
    THEN mapping[CHOOSE i \in 1..Len(mapping) : mapping[i][1] = k][2]
    ELSE k

-----------------------------------------------------------------------------
(* Text and its conversions *)

\* The cell texts read_csv takes for a missing value ('' and 'NA' of its
\* default na_values).
IsNaText(s) == s \in {<<>>, <<78, 65>>}

\* A text int() accepts: one or more decimal digits.
IsIntText(s) == Len(s) > 0 /\ \A i \in 1..Len(s) : s[i] \in 48..57

\* int(s) of a digit text.
RECURSIVE ParseInt(_)
ParseInt(s) ==
    IF Len(s) = 0 THEN 0
    ELSE 10 * ParseInt(SubSeq(s, 1, Len(s) - 1)) + (s[Len(s)] - 48)

\* str(n) of a natural number.
RECURSIVE FormatInt(_)
FormatInt(n) ==
    IF n < 10 THEN <<48 + n>>
    ELSE FormatInt(n \div 10) \o <<48 + (n % 10)>>

\* Python's order on str: lexicographic by code point, a proper prefix first.
RECURSIVE TextLess(_, _)
TextLess(a, b) ==
    IF Len(b) = 0 THEN FALSE
    ELSE IF Len(a) = 0 THEN TRUE
    ELSE IF a[1] # b[1] THEN a[1] < b[1]
    ELSE TextLess(Tail(a), Tail(b))

-----------------------------------------------------------------------------
(* pd.read_csv *)

\* The texts of column j of a file.
ColumnTexts(file, j) == [i \in 1..Len(file.rows) |-> file.rows[i][j]]

\* The dtype read_csv infers for a column it was given no dtype for.
InferDtype(texts) ==
    IF Len(texts) = 0 THEN "object"
    ELSE IF \A i \in 1..Len(texts) : IsNaText(texts[i]) \/ IsIntText(texts[i])
    THEN IF \E i \in 1..Len(texts) : IsNaText(texts[i]) THEN "float64" ELSE "int64"
    ELSE "object"

\* The value of one cell text in a column of the given dtype.
ParseCell(text, dtype) ==
    IF IsNaText(text) THEN NaN
    ELSE IF dtype = "object" THEN Str(text)
    ELSE Num(ParseInt(text))

\* read_csv(path, dtype={intcol: int}) succeeds: every cell of a column named
\* intcol is an integer text (a blank or a non-numeric cell is a ValueError).
\* A file without that column is read as it is.
ReadOk(file, intcol) ==
    \A j \in 1..Len(file.header) :
        file.header[j] = intcol =>
            \A i \in 1..Len(file.rows) : IsIntText(file.rows[i][j])

\* The dtype of column j.
ReadDtype(file, intcol, j) ==
    IF file.header[j] = intcol THEN "int64" ELSE InferDtype(ColumnTexts(file, j))

\* The frame read_csv returns when it succeeds.
read_csv(file, intcol) ==
    [cols   |-> file.header,
     dtypes |-> [j \in 1..Len(file.header) |-> ReadDtype(file, intcol, j)],
     rows   |-> [i \in 1..Len(file.rows) |->
                   [j \in 1..Len(file.header) |->
                      ParseCell(file.rows[i][j], ReadDtype(file, intcol, j))]]]

-----------------------------------------------------------------------------
(* The input files *)

\* The most rows the two input files hold together.
MaxRows == 3

ISO3_OLD == "ISO 3-character country/territory code"
INC_OLD == "Estimated incidence (all forms) per 100 000 population"
REGION_OLD == "Region"

\* Headers of the newer file: the mapped names with two data columns, the
\* columns permuted with a surplus column, no iso3 column, no year column.
HeadersNew ==
    { <<"iso3", "year", "e_inc_100k", "g_whoregion">>,
      <<"junk", "year", "iso3">>,
      <<"year", "e_inc_100k">>,
      <<"iso3", "e_inc_100k">> }

\* Headers of the older file: the mapped names permuted with two data columns,
\* a year column under its canonical name, no year column, no iso3 column, a
\* region column under its mapped name and one under its canonical name.
HeadersOld ==
    { <<"Year", INC_OLD, ISO3_OLD, REGION_OLD>>,
      <<ISO3_OLD, "year", INC_OLD>>,
      <<ISO3_OLD, INC_OLD>>,
      <<"Year", INC_OLD>>,
      <<"Year", ISO3_OLD, REGION_OLD, "region">> }

\* Records of the newer file: iso3 "B", "AB" or blank; year "2", "1" or "x";
\* incidence "0", "7" or blank; region "W" or blank.
PoolNew ==
    { [iso |-> <<66>>,     year |-> <<50>>,  inc |-> <<48>>, reg |-> <<>>],
      [iso |-> <<65, 66>>, year |-> <<50>>,  inc |-> <<>>,   reg |-> <<87>>],
      [iso |-> <<>>,       year |-> <<49>>,  inc |-> <<55>>, reg |-> <<87>>],
      [iso |-> <<65, 66>>, year |-> <<120>>, inc |-> <<55>>, reg |-> <<>>] }

\* Records of the older file: incidence "8" or blank, region "E" or blank, one
\* record with no year.
PoolOld ==
    { [iso |-> <<66>>,     year |-> <<50>>, inc |-> <<56>>, reg |-> <<69>>],
      [iso |-> <<65, 66>>, year |-> <<50>>, inc |-> <<56>>, reg |-> <<69>>],
      [iso |-> <<65, 66>>, year |-> <<49>>, inc |-> <<>>,   reg |-> <<>>],
      [iso |-> <<66>>,     year |-> <<>>,   inc |-> <<56>>, reg |-> <<69>>] }

\* The cell a record has under a header name.
CellText(rec, name) ==
    IF name \in {"iso3", ISO3_OLD} THEN rec.iso
    ELSE IF name \in {"year", "Year"} THEN rec.year
    ELSE IF name \in {"e_inc_100k", INC_OLD} THEN rec.inc
    ELSE IF name \in {"g_whoregion", REGION_OLD, "region"} THEN rec.reg
    ELSE <<74>>

\* The files with a header of hs and n records of pool, in any order.
Files(hs, pool, n) ==
    { [header |-> h,
       rows   |-> [i \in 1..n |-> [j \in 1..Len(h) |-> CellText(recs[i], h[j])]]] :
      h \in hs, recs \in [1..n -> pool] }

-----------------------------------------------------------------------------
(* The run *)

Init ==
    /\ \E na \in 0..MaxRows, nb \in 0..MaxRows :
          /\ na + nb <= MaxRows
          /\ csv1 \in Files(HeadersNew, PoolNew, na)
          /\ csv2 \in Files(HeadersOld, PoolOld, nb)
    /\ outFile = None
    /\ pc = "read_new"
    /\ err = "none"
    /\ df_new = None
    /\ df_old = None
    /\ merged = None
    /\ ret = None
    /\ prev = None
    /\ query = <<>>
    /\ step = "if"
    /\ evaluated = FALSE
    /\ shown = {}
    /\ query_results = "unbound"

\* The newer file is read and written back with its columns renamed.
ReadNewRewrite ==
    /\ pc = "read_new"
    /\ IF ReadOk(csv1, "year")
       THEN /\ df_new' = read_csv(csv1, "year")
            /\ pc' = "read_old"
            /\ err' = err
       ELSE /\ df_new' = df_new
            /\ pc' = "failed"
            /\ err' = "ValueError"
    /\ csv1' = [csv1 EXCEPT !.header =
                   [j \in 1..Len(@) |-> Lookup(column_mapping_new, @[j])]]
    /\ UNCHANGED <<explorer, csv2, outFile, df_old, merged, ret, prev>>

\* Line 5: df_new = pd.read_csv(csv1_path, dtype={'year': int})
ReadNew ==
    /\ pc = "read_new"
    /\ IF ReadOk(csv1, "year")
       THEN /\ df_new' = read_csv(csv1, "year")
            /\ pc' = "read_old"
            /\ err' = err
       ELSE /\ df_new' = df_new
            /\ pc' = "failed"
            /\ err' = "ValueError"
    /\ UNCHANGED <<explorer, csv1, csv2, outFile, df_old, merged, ret, prev>>

\* Line 6: df_old = pd.read_csv(csv2_path, dtype={'Year': int})
ReadOld ==
    /\ pc = "read_old"
    /\ IF ReadOk(csv2, "Year")
       THEN /\ df_old' = read_csv(csv2, "Year")
            /\ pc' = "rename_new"
            /\ err' = err
       ELSE /\ df_old' = df_old
            /\ pc' = "failed"
            /\ err' = "ValueError"
    /\ UNCHANGED <<explorer, csv1, csv2, outFile, df_new, merged, ret, prev>>

-----------------------------------------------------------------------------
(* DataFrame operations *)

\* The concatenation of a sequence of sequences.
RECURSIVE Flatten(_)
Flatten(ss) == IF Len(ss) = 0 THEN <<>> ELSE Head(ss) \o Flatten(Tail(ss))

\* The positions of the columns labelled name, in order.
Positions(name, cols) ==
    LET Test(j) == cols[j] = name
    IN  SelectSeq([j \in 1..Len(cols) |-> j], Test)

\* No renaming.
rename_none(df, mapping) == df

\* df.rename(columns={k: v for k, v in mapping.items() if k in df.columns}):
\* a column whose label is a key of the mapping takes the mapped name, every
\* other column keeps its label.
rename(df, mapping) ==
    [df EXCEPT !.cols = [j \in 1..Len(df.cols) |-> Lookup(mapping, df.cols[j])]]

\* The columns the frame lacks are added as columns of empty strings.
PadFrameEmpty(df) ==
    LET Lacks(c) == ~In(c, df.cols)
        missing == SelectSeq(final_columns, Lacks)
    IN  [cols   |-> df.cols \o missing,
         dtypes |-> df.dtypes \o [k \in 1..Len(missing) |-> "object"],
         rows   |-> [i \in 1..Len(df.rows) |->
                       df.rows[i] \o [k \in 1..Len(missing) |-> Str(<<>>)]]]

\* Lines 75-77 for one frame: each canonical column the frame lacks is added
\* at the end, in canonical order, as an object column of pd.NA.
PadFrame(df) ==
    LET Lacks(c) == ~In(c, df.cols)
        missing == SelectSeq(final_columns, Lacks)
    IN  [cols   |-> df.cols \o missing,
         dtypes |-> df.dtypes \o [k \in 1..Len(missing) |-> "object"],
         rows   |-> [i \in 1..Len(df.rows) |->
                       df.rows[i] \o [k \in 1..Len(missing) |-> PdNA]]]

\* df[names]: the columns labelled by names, in the order of names.
SelectCols(df, names) ==
    LET idx == Flatten([k \in 1..Len(names) |-> Positions(names[k], df.cols)])
    IN  [cols   |-> [m \in 1..Len(idx) |-> df.cols[idx[m]]],
         dtypes |-> [m \in 1..Len(idx) |-> df.dtypes[idx[m]]],
         rows   |-> [i \in 1..Len(df.rows) |->
                       [m \in 1..Len(idx) |-> df.rows[i][idx[m]]]]]

\* lib.infer_dtype(column, skipna=False) of a key column.
Inferred(df, j) ==
    IF df.dtypes[j] = "int64" THEN "integer"
    ELSE IF df.dtypes[j] = "float64" THEN "floating"
    ELSE IF Len(df.rows) = 0 THEN "empty"
    ELSE IF \A i \in 1..Len(df.rows) : df.rows[i][j].t = "str" THEN "string"
    ELSE "mixed"

\* _maybe_coerce_merge_keys for one key: pd.merge raises ValueError ("You are
\* trying to merge on object and int64 columns") when one side is an object
\* column of strings or of missing values and the other side is numeric.  The
\* check is skipped when exactly one frame has no rows.
KeyDtypesOk(left, right, k) ==
    LET lj == IndexOf(k, left.cols)
        rj == IndexOf(k, right.cols)
        ld == left.dtypes[lj]
        rd == right.dtypes[rj]
        il == Inferred(left, lj)
        ir == Inferred(right, rj)
        bool_types == {"integer", "mixed-integer", "boolean", "empty"}
        string_types == {"string", "unicode", "mixed", "bytes", "empty"}
    IN  \/ (Len(left.rows) > 0) # (Len(right.rows) > 0)
        \/ ld = rd
        \/ ld # "object" /\ rd # "object"
        \/ il \in bool_types /\ ir \in bool_types
        \/ ~ \/ il \in string_types /\ ir \notin string_types
             \/ ir \in string_types /\ il \notin string_types

\* pd.merge does not raise.
MergeOk(left, right) == \A k \in Range(on) : KeyDtypesOk(left, right, k)

\* Key cells join as in SQL: a missing key joins nothing.
KeyEqSql(a, b) == ~IsNA(a) /\ a = b

\* Two key cells join: equal values, or both missing (pandas joins missing
\* keys with each other).
KeyEq(a, b) == (IsNA(a) /\ IsNA(b)) \/ a = b

\* The label of column c in the join's result.
SuffixName(c, other_cols, sfx) ==
    IF ~In(c, on) /\ In(c, other_cols) THEN c \o sfx ELSE c

\* pd.merge(left, right, on=on, how=how, suffixes=suffixes): the left columns
\* (keys unsuffixed), then the right columns that are not keys.  A left row is
\* paired with every right row of the same key; an outer join keeps an unpaired
\* row of either side with NaN in the other side's columns.  Rows of one key
\* come in left-major order, which is the order the stable sort of line 95
\* keeps them in.
merge(left, right) ==
    LET nl == Len(left.cols)
        NotKey(j) == ~In(right.cols[j], on)
        rnk == SelectSeq([j \in 1..Len(right.cols) |-> j], NotKey)
        Match(l, r) ==
            \A k \in Range(on) :
                KeyEq(l[IndexOf(k, left.cols)], r[IndexOf(k, right.cols)])
        RightPart(r) == [m \in 1..Len(rnk) |-> r[rnk[m]]]
        NoRight == [m \in 1..Len(rnk) |-> NaN]
        RowsOfLeft(l) ==
            LET Pairs(r) == Match(l, r)
                rs == SelectSeq(right.rows, Pairs)
            IN  IF Len(rs) = 0
                THEN IF how = "outer" THEN << l \o NoRight >> ELSE <<>>
                ELSE [m \in 1..Len(rs) |-> l \o RightPart(rs[m])]
        Unpaired(r) == \A i \in 1..Len(left.rows) : ~Match(left.rows[i], r)
        RowOfRight(r) ==
            [j \in 1..nl |->
                IF In(left.cols[j], on) THEN r[IndexOf(left.cols[j], right.cols)]
                ELSE NaN] \o RightPart(r)
        ro == IF how = "outer" THEN SelectSeq(right.rows, Unpaired) ELSE <<>>
    IN  [cols |-> [j \in 1..nl |-> SuffixName(left.cols[j], right.cols, suffixes[1])]
                  \o [m \in 1..Len(rnk) |->
                        SuffixName(right.cols[rnk[m]], left.cols, suffixes[2])],
         rows |-> Flatten([i \in 1..Len(left.rows) |-> RowsOfLeft(left.rows[i])])
                  \o [m \in 1..Len(ro) |-> RowOfRight(ro[m])]]

\* The older value wins.
combine_last(a, b) == IF IsNA(b) THEN a ELSE b

\* No fallback to the older value.
combine_only(a, b) == a

\* a.combine_first(b) on one cell: a's value unless it is missing.
combine_first(a, b) == IF IsNA(a) THEN b ELSE a

\* m[name] = values: replaces the column labelled name, or adds it at the end.
SetCol(m, name, values) ==
    IF In(name, m.cols)
    THEN [m EXCEPT !.rows = [i \in 1..Len(m.rows) |->
                                [m.rows[i] EXCEPT ![IndexOf(name, m.cols)] = values[i]]]]
    ELSE [cols |-> Append(m.cols, name),
          rows |-> [i \in 1..Len(m.rows) |-> Append(m.rows[i], values[i])]]

\* The choice is made per row: a row that has any value of the newer file
\* takes every column from the newer file.
CombineColByRow(m, col) ==
    LET jn == IndexOf(col \o suffixes[2], m.cols)
        jo == IndexOf(col \o suffixes[1], m.cols)
        HasNew(r) == \E k \in 1..Len(final_columns) :
                        /\ ~In(final_columns[k], on)
                        /\ ~IsNA(r[IndexOf(final_columns[k] \o suffixes[2], m.cols)])
    IN  SetCol(m, col, [i \in 1..Len(m.rows) |->
                           IF HasNew(m.rows[i]) THEN m.rows[i][jn]
                           ELSE m.rows[i][jo]])

\* Line 91 for one column.
CombineCol(m, col) ==
    LET jn == IndexOf(col \o suffixes[2], m.cols)
        jo == IndexOf(col \o suffixes[1], m.cols)
    IN  SetCol(m, col, [i \in 1..Len(m.rows) |->
                           combine_first(m.rows[i][jn], m.rows[i][jo])])

\* Line 91 can be evaluated for col: merged[col_new] and merged[col_old] are
\* one column each.  With two columns of one label, merged[label] is a frame
\* of both and Series.combine_first raises.
CombineOk(m, col) ==
    /\ Len(Positions(col \o suffixes[2], m.cols)) = 1
    /\ Len(Positions(col \o suffixes[1], m.cols)) = 1

\* The exception of Series.combine_first on a frame, named as pandas 2.x
\* raises it (the frame has no dtype); pandas 1.x raises NotImplementedError
\* at the same call (Series.where cannot align with a frame).
CombineError == "AttributeError"

\* The loop of lines 89-91 from column k of final_columns on; it stops at the
\* first column for which line 91 raises.
RECURSIVE CombineLoop(_, _)
CombineLoop(m, k) ==
    IF k > Len(final_columns) THEN m
    ELSE IF In(final_columns[k], on) THEN CombineLoop(m, k + 1)
    ELSE IF ~CombineOk(m, final_columns[k]) THEN m
    ELSE CombineLoop(CombineCol(m, final_columns[k]), k + 1)

\* The loop of lines 89-91 runs to its end.
CombineAllOk(m) ==
    \A k \in 1..Len(final_columns) :
        In(final_columns[k], on) \/ CombineOk(m, final_columns[k])

\* No projection.
ProjectAll(m) == m

\* merged[final_columns]
Project(m) ==
    LET idx == Flatten([k \in 1..Len(final_columns) |->
                           Positions(final_columns[k], m.cols)])
    IN  [cols |-> [n \in 1..Len(idx) |-> m.cols[idx[n]]],
         rows |-> [i \in 1..Len(m.rows) |-> [n \in 1..Len(idx) |-> m.rows[i][idx[n]]]]]

\* The order of one sort key: numbers ascending, strings in Python's order,
\* missing values last (na_position='last').
CellLess(a, b) ==
    IF IsNA(a) THEN FALSE
    ELSE IF IsNA(b) THEN TRUE
    ELSE IF a.t = "num" /\ b.t = "num" THEN a.n < b.n
    ELSE IF a.t = "str" /\ b.t = "str" THEN TextLess(a.s, b.s)
    ELSE a.t = "num"

\* The order of sort_values(['iso3', 'year']) on two rows of m.
RowLess(m, r1, r2) ==
    LET i3 == IndexOf("iso3", m.cols)
        yr == IndexOf("year", m.cols)
    IN  \/ CellLess(r1[i3], r2[i3])
        \/ /\ ~CellLess(r2[i3], r1[i3])
           /\ CellLess(r1[yr], r2[yr])

\* r put into the sorted rows, after every row that is not greater.
RECURSIVE Insert(_, _, _)
Insert(m, sorted, r) ==
    IF Len(sorted) = 0 THEN <<r>>
    ELSE IF RowLess(m, r, Head(sorted)) THEN <<r>> \o sorted
    ELSE <<Head(sorted)>> \o Insert(m, Tail(sorted), r)

\* The first k rows of m, sorted stably.
RECURSIVE SortRows(_, _)
SortRows(m, k) ==
    IF k = 0 THEN <<>> ELSE Insert(m, SortRows(m, k - 1), m.rows[k])

\* The sort followed by drop_duplicates(['iso3', 'year']): of the rows of one
\* key the first is kept.
sort_values_unique(m) ==
    LET sorted == SortRows(m, Len(m.rows))
        i3 == IndexOf("iso3", m.cols)
        yr == IndexOf("year", m.cols)
        First(i) == \A j \in 1..(i - 1) :
                        ~(sorted[j][i3] = sorted[i][i3] /\ sorted[j][yr] = sorted[i][yr])
        idx == SelectSeq([i \in 1..Len(sorted) |-> i], First)
    IN  [m EXCEPT !.rows = [n \in 1..Len(idx) |-> sorted[idx[n]]]]

\* merged.sort_values(['iso3', 'year'])
sort_values(m) == [m EXCEPT !.rows = SortRows(m, Len(m.rows))]

\* No fill: the missing markers stay in the table.
fillna_none(m) == m

\* fillna('') on one cell.
FillCell(c) == IF IsNA(c) THEN Str(<<>>) ELSE c

\* merged.fillna(''): every missing cell of every column becomes ''.
fillna(m) ==
    [m EXCEPT !.rows = [i \in 1..Len(m.rows) |->
                          [j \in 1..Len(m.cols) |-> FillCell(m.rows[i][j])]]]

\* The text to_csv writes for a cell (na_rep is '').
FormatCell(c) ==
    IF IsNA(c) THEN <<>>
    ELSE IF c.t = "num" THEN FormatInt(c.n)
    ELSE c.s

\* merged.to_csv(path, index=False): the header row and one line per row.
to_csv(m) ==
    [header |-> m.cols,
     rows   |-> [i \in 1..Len(m.rows) |->
                   [j \in 1..Len(m.cols) |-> FormatCell(m.rows[i][j])]]]

-----------------------------------------------------------------------------
(* The statements of lines 60-103 *)

\* Line 60.
RenameNew ==
    /\ pc = "rename_new"
    /\ df_new' = rename(df_new, column_mapping_new)
    /\ pc' = "rename_old"
    /\ UNCHANGED <<explorer, csv1, csv2, outFile, err, df_old, merged, ret, prev>>

\* Line 61.
RenameOld ==
    /\ pc = "rename_old"
    /\ df_old' = rename(df_old, column_mapping_old)
    /\ pc' = "pad"
    /\ UNCHANGED <<explorer, csv1, csv2, outFile, err, df_new, merged, ret, prev>>

\* Lines 74-77: the loop pads both frames in place.
Pad ==
    /\ pc = "pad"
    /\ df_new' = PadFrame(df_new)
    /\ df_old' = PadFrame(df_old)
    /\ pc' = "merge"
    /\ UNCHANGED <<explorer, csv1, csv2, outFile, err, merged, ret, prev>>

\* The join's result is written to the output file at once.
MergeAndWrite ==
    /\ pc = "merge"
    /\ LET left == SelectCols(df_old, final_columns)
           right == SelectCols(df_new, final_columns)
       IN  IF MergeOk(left, right)
           THEN /\ merged' = merge(left, right)
                /\ outFile' = to_csv(merge(left, right))
                /\ pc' = "combine"
                /\ err' = err
           ELSE /\ merged' = merged
                /\ outFile' = outFile
                /\ pc' = "failed"
                /\ err' = "ValueError"
    /\ UNCHANGED <<explorer, csv1, csv2, df_new, df_old, ret, prev>>

\* Lines 80-86.
Merge ==
    /\ pc = "merge"
    /\ LET left == SelectCols(df_old, final_columns)
           right == SelectCols(df_new, final_columns)
       IN  IF MergeOk(left, right)
           THEN /\ merged' = merge(left, right)
                /\ pc' = "combine"
                /\ err' = err
           ELSE /\ merged' = merged
                /\ pc' = "failed"
                /\ err' = "ValueError"
    /\ UNCHANGED <<explorer, csv1, csv2, outFile, df_new, df_old, ret, prev>>

\* Lines 89-91.
Combine ==
    /\ pc = "combine"
    /\ merged' = CombineLoop(merged, 1)
    /\ IF CombineAllOk(merged)
       THEN /\ pc' = "project"
            /\ err' = err
       ELSE /\ pc' = "failed"
            /\ err' = CombineError
    /\ UNCHANGED <<explorer, csv1, csv2, outFile, df_new, df_old, ret, prev>>

\* Line 94.
ProjectStep ==
    /\ pc = "project"
    /\ merged' = Project(merged)
    /\ pc' = "sort"
    /\ UNCHANGED <<explorer, csv1, csv2, outFile, err, df_new, df_old, ret, prev>>

\* The sorted table is written to the output file before the fill.
SortAndWrite ==
    /\ pc = "sort"
    /\ merged' = sort_values(merged)
    /\ outFile' = to_csv(sort_values(merged))
    /\ pc' = "fillna"
    /\ UNCHANGED <<explorer, csv1, csv2, err, df_new, df_old, ret, prev>>

\* The table is filled before it is sorted.
SortFilled ==
    /\ pc = "sort"
    /\ merged' = sort_values(fillna(merged))
    /\ pc' = "fillna"
    /\ UNCHANGED <<explorer, csv1, csv2, outFile, err, df_new, df_old, ret, prev>>

\* Line 95.
Sort ==
    /\ pc = "sort"
    /\ merged' = sort_values(merged)
    /\ pc' = "fillna"
    /\ UNCHANGED <<explorer, csv1, csv2, outFile, err, df_new, df_old, ret, prev>>

\* A retry loop: after the fill the table is sorted and filled again.
FillnaRetry ==
    /\ pc = "fillna"
    /\ merged' = fillna(merged)
    /\ pc' = "sort"
    /\ UNCHANGED <<explorer, csv1, csv2, outFile, err, df_new, df_old, ret, prev>>

\* Line 98.
Fillna ==
    /\ pc = "fillna"
    /\ merged' = fillna(merged)
    /\ pc' = "to_csv"
    /\ UNCHANGED <<explorer, csv1, csv2, outFile, err, df_new, df_old, ret, prev>>

\* The rows are appended to a file that is already there (mode='a').
ToCsvAppend ==
    /\ pc = "to_csv"
    /\ outFile' = IF outFile = None THEN to_csv(merged)
                  ELSE [outFile EXCEPT !.rows = @ \o to_csv(merged).rows]
    /\ pc' = "return"
    /\ UNCHANGED <<explorer, csv1, csv2, err, df_new, df_old, merged, ret, prev>>

\* Lines 101-102: to_csv creates the file and writes the header and every row
\* in this one call; then the message is printed.
ToCsv ==
    /\ pc = "to_csv"
    /\ outFile' = to_csv(merged)
    /\ pc' = "return"
    /\ UNCHANGED <<explorer, csv1, csv2, err, df_new, df_old, merged, ret, prev>>

\* The rows without a country code are dropped after the write.
ReturnNamed ==
    /\ pc = "return"
    /\ LET Named(r) == r[IndexOf("iso3", merged.cols)] # Str(<<>>)
       IN  ret' = [merged EXCEPT !.rows = SelectSeq(@, Named)]
    /\ pc' = "done"
    /\ UNCHANGED <<explorer, csv1, csv2, outFile, err, df_new, df_old, merged, prev>>

\* Line 103.
Return ==
    /\ pc = "return"
    /\ ret' = merged
    /\ pc' = "done"
    /\ UNCHANGED <<explorer, csv1, csv2, outFile, err, df_new, df_old, merged, prev>>

Next ==
    \/ ReadNew \/ ReadOld \/ RenameNew \/ RenameOld \/ Pad \/ Merge
    \/ Combine \/ ProjectStep \/ Sort \/ Fillna \/ ToCsv \/ Return

\* One run of the script.
Spec == Init /\ [][Next]_vars

\* The run is over: it has returned, or it has raised an exception.
Ended == pc \in {"done", "failed"}

\* One run of the script that goes on while it has a statement to execute:
\* the interpreter executes the statements of the one thread one after the
\* other and nothing else has to take a step.  This is weak fairness of Next,
\* WF_vars(Next), with the enabling condition of Next written out: every
\* statement is guarded by the position alone, so a step of Next is possible
\* exactly while the run is not over.
SpecFair == Spec /\ ([]<>Ended \/ []<><<Next>>_vars)

\* Lines 106-110 once more: the script is run again on the same input files
\* after a run has ended.  The output file of the earlier run is still there;
\* the names of the function body are unbound again.
Rerun ==
    /\ pc \in {"done", "failed"}
    /\ prev = None
    /\ prev' = [file |-> outFile, ret |-> ret, err |-> err, pc |-> pc]
    /\ pc' = "read_new"
    /\ err' = "none"
    /\ df_new' = None
    /\ df_old' = None
    /\ merged' = None
    /\ ret' = None
    /\ UNCHANGED <<explorer, csv1, csv2, outFile>>

NextTwice == Next \/ Rerun

\* The script run once, and then once more.
SpecTwice == Init /\ [][NextTwice]_vars

-----------------------------------------------------------------------------
(* Reading the files for the properties *)

\* A missing cell text is the empty text.
Norm(text) == IF IsNaText(text) THEN <<>> ELSE text

\* The file has a column that the mapping, or its own label, makes name.
HasColumn(file, mapping, name) ==
    \E j \in 1..Len(file.header) : Lookup(mapping, file.header[j]) = name

\* The text a row of a source file holds for the canonical column name; the
\* empty text when the cell is missing or the file has no such column.
SrcText(file, mapping, row, name) ==
    IF HasColumn(file, mapping, name)
    THEN Norm(row[CHOOSE j \in 1..Len(file.header) :
                     Lookup(mapping, file.header[j]) = name])
    ELSE <<>>

\* The (iso3, year) pair of a row of a source file.
SrcKey(file, mapping, row) ==
    <<SrcText(file, mapping, row, "iso3"), SrcText(file, mapping, row, "year")>>

KeyA(row) == SrcKey(csv1, column_mapping_new, row)
KeyB(row) == SrcKey(csv2, column_mapping_old, row)
TextA(row, name) == SrcText(csv1, column_mapping_new, row, name)
TextB(row, name) == SrcText(csv2, column_mapping_old, row, name)

RowsA == Range(csv1.rows)
RowsB == Range(csv2.rows)
KeysA == {KeyA(r) : r \in RowsA}
KeysB == {KeyB(r) : r \in RowsB}

\* The text a row of the output file holds for a column.
OutText(row, name) == row[IndexOf(name, outFile.header)]
OutKey(row) == <<OutText(row, "iso3"), OutText(row, "year")>>
OutRows == Range(outFile.rows)

\* The canonical columns other than the join key.
DataColumns == {c \in Range(final_columns) : ~In(c, on)}

\* No two rows of the file have the same (iso3, year).
UniqueKeys(file, mapping) ==
    \A i, j \in 1..Len(file.rows) :
        SrcKey(file, mapping, file.rows[i]) = SrcKey(file, mapping, file.rows[j])
            => i = j

\* The run has returned.
Done == pc = "done"

-----------------------------------------------------------------------------
(* Properties *)

\* C1 (completeness): when the run has returned, the (iso3, year) pairs of the
\* rows of the output are exactly the pairs of the rows of the two source
\* files; no pair is lost and none is invented.  A missing key cell, and the
\* key of a file that has no such column, is the empty text on both sides.
C1_Completeness ==
    Done => {OutKey(o) : o \in OutRows} = KeysA \cup KeysB

\* C1 witness: a returned run with a pair only in B and a pair in both.
C1_Witness ==
    /\ Done
    /\ KeysB \ KeysA # {}
    /\ KeysA \cap KeysB # {}

\* C2 as claimed: the output never holds two rows with the same (iso3, year).
C2_Original ==
    Done => \A i, j \in 1..Len(outFile.rows) :
                OutKey(outFile.rows[i]) = OutKey(outFile.rows[j]) => i = j

\* C2 (key uniqueness), amended: when neither source file holds two rows with
\* the same (iso3, year), the output holds exactly one row for every pair of
\* either source, one combined row for a pair of both, and no two rows with
\* the same pair.
C2_KeyUniqueness ==
    (Done /\ UniqueKeys(csv1, column_mapping_new)
          /\ UniqueKeys(csv2, column_mapping_old))
    => /\ \A i, j \in 1..Len(outFile.rows) :
             OutKey(outFile.rows[i]) = OutKey(outFile.rows[j]) => i = j
       /\ Len(outFile.rows) = Cardinality(KeysA \cup KeysB)

\* C2 witness: unique keys in both files, a pair in both files (one of them
\* with a missing iso3), and a pair in one file only.
C2_Witness ==
    /\ Done
    /\ UniqueKeys(csv1, column_mapping_new)
    /\ UniqueKeys(csv2, column_mapping_old)
    /\ \E k \in KeysA \cap KeysB : k[1] = <<>>
    /\ KeysA # KeysB

\* C3 (precedence): for a pair of both files and a canonical column other than
\* the key, when every row of A for the pair and some row of B for the pair
\* hold a value, each output row of the pair holds a value of A.
C3_Precedence ==
    Done =>
        \A o \in OutRows :
            LET as == {a \in RowsA : KeyA(a) = OutKey(o)}
                bs == {b \in RowsB : KeyB(b) = OutKey(o)}
            IN  \A c \in DataColumns :
                    (/\ as # {}
                     /\ \A a \in as : TextA(a, c) # <<>>
                     /\ \E b \in bs : TextB(b, c) # <<>>)
                    => \E a \in as : OutText(o, c) = TextA(a, c)

\* C3 witness: a pair of both files for which A and B hold different values
\* of one column.
C3_Witness ==
    /\ Done
    /\ \E a \in RowsA, b \in RowsB, c \in DataColumns :
          /\ KeyA(a) = KeyB(b)
          /\ TextA(a, c) # <<>>
          /\ TextB(b, c) # <<>>
          /\ TextA(a, c) # TextB(b, c)

\* C4 (fallback): for a row of B that holds a value of a canonical column other
\* than the key, when A has no row for the pair, or only rows in which the
\* column is missing or absent, the output has a row of the pair with B's value.
C4_Fallback ==
    Done =>
        \A b \in RowsB, c \in DataColumns :
            (/\ TextB(b, c) # <<>>
             /\ \A a \in RowsA : KeyA(a) = KeyB(b) => TextA(a, c) = <<>>)
            => \E o \in OutRows : OutKey(o) = KeyB(b) /\ OutText(o, c) = TextB(b, c)

\* C4 witness: B holds a value for a pair A has no row for, and a value for a
\* pair whose row of A has the column missing.
C4_Witness ==
    /\ Done
    /\ \E b \in RowsB, c \in DataColumns :
          /\ TextB(b, c) # <<>>
          /\ KeyB(b) \notin KeysA
    /\ \E b \in RowsB, a \in RowsA, c \in DataColumns :
          /\ TextB(b, c) # <<>>
          /\ KeyA(a) = KeyB(b)
          /\ HasColumn(csv1, column_mapping_new, c)
          /\ TextA(a, c) = <<>>

\* A source file has no column that maps to iso3, or none that maps to year.
LacksKeyColumn ==
    \E k \in Range(on) :
        \/ ~HasColumn(csv1, column_mapping_new, k)
        \/ ~HasColumn(csv2, column_mapping_old, k)

\* C5 as claimed: when a source file has no iso3 column or no year column, the
\* run fails before the join and no output file is written.
C5_SchemaError ==
    LacksKeyColumn => (merged = None /\ outFile = None)

\* A source file holds a year cell that is no integer.
BadYear ==
    \/ /\ HasColumn(csv1, column_mapping_new, "year")
       /\ \E r \in RowsA : ~IsIntText(TextA(r, "year"))
    \/ /\ HasColumn(csv2, column_mapping_old, "year")
       /\ \E r \in RowsB : ~IsIntText(TextB(r, "year"))

\* C6 as claimed: when a year value of either source file is no integer, the
\* run fails and no output file is written.
C6_YearFatal ==
    BadYear => (outFile = None /\ pc \notin {"return", "done"})

\* The rows the join of the two files must give: one for every pair of a row
\* of A and a row of B with the same key, one for every row without a partner.
ExpectedRowCount ==
    LET ia == 1..Len(csv1.rows)
        ib == 1..Len(csv2.rows)
    IN  Cardinality({p \in ia \X ib : KeyA(csv1.rows[p[1]]) = KeyB(csv2.rows[p[2]])})
        + Cardinality({i \in ia : KeyA(csv1.rows[i]) \notin KeysB})
        + Cardinality({j \in ib : KeyB(csv2.rows[j]) \notin KeysA})

\* The order of the written rows: iso3 ascending, then year ascending, a
\* missing (empty) key field after every present one.
FieldBefore(x, y, isYear) ==
    IF x = <<>> THEN FALSE
    ELSE IF y = <<>> THEN TRUE
    ELSE IF isYear THEN ParseInt(x) < ParseInt(y)
    ELSE TextLess(x, y)

WrittenBefore(o1, o2) ==
    \/ FieldBefore(OutText(o1, "iso3"), OutText(o2, "iso3"), FALSE)
    \/ /\ OutText(o1, "iso3") = OutText(o2, "iso3")
       /\ FieldBefore(OutText(o1, "year"), OutText(o2, "year"), TRUE)

\* The output file holds the whole table: the canonical header, rows of that
\* width, every key of the sources, every row of the join, in sorted order.
CompleteFile ==
    /\ outFile.header = final_columns
    /\ \A o \in OutRows : Len(o) = Len(final_columns)
    /\ {OutKey(o) : o \in OutRows} = KeysA \cup KeysB
    /\ Len(outFile.rows) = ExpectedRowCount
    /\ \A i, j \in 1..Len(outFile.rows) :
          i < j => ~WrittenBefore(outFile.rows[j], outFile.rows[i])

\* C7 (no partial output): up to the write of line 101 the output file does
\* not exist, in a failed run too; from the write on it holds the whole
\* merged, projected, sorted and filled table.
C7_NoPartialOutput ==
    IF pc \in {"return", "done"}
    THEN outFile # None /\ CompleteFile
    ELSE outFile = None

\* C7 witness: a file of three rows has been written.
C7_Witness ==
    /\ pc = "return"
    /\ outFile # None
    /\ Len(outFile.rows) = 3
    /\ Len(csv1.rows) > 0
    /\ Len(csv2.rows) > 0

\* C8 as claimed: fillna never puts the empty string into the iso3 or the year
\* column, so every written row has a key of two non-empty fields.
C8_KeysNeverEmpty ==
    /\ pc \in {"to_csv", "return", "done"} =>
          \A i \in 1..Len(merged.rows), k \in Range(on) :
              merged.rows[i][IndexOf(k, merged.cols)] # Str(<<>>)
    /\ outFile # None =>
          \A o \in OutRows, k \in Range(on) : OutText(o, k) # <<>>

\* C9 (column fidelity): the header of the written file, and the columns of
\* the returned table, are the 22 canonical columns in their order, and every
\* row has 22 fields, whatever the order of the input columns and whatever
\* other columns the inputs hold.
C9_ColumnFidelity ==
    /\ Len(final_columns) = 22
    /\ outFile # None =>
          /\ outFile.header = final_columns
          /\ \A o \in OutRows : Len(o) = 22
    /\ Done =>
          /\ ret.cols = final_columns
          /\ \A i \in 1..Len(ret.rows) : Len(ret.rows[i]) = 22

\* C9 witness: the newer file has its key columns in another order and a
\* column that is not mapped; both files have rows.
C9_Witness ==
    /\ Done
    /\ csv1.header = <<"junk", "year", "iso3">>
    /\ Len(csv1.rows) > 0
    /\ Len(csv2.rows) > 0
    /\ Len(outFile.rows) > 1

\* C10 as claimed: of two written rows the one with the lexicographically
\* smaller iso3 comes first, and of two rows with the same iso3 the one with
\* the smaller year comes first.
C10_SortOrder ==
    Done =>
        \A i, j \in 1..Len(outFile.rows) :
            LET o1 == outFile.rows[i]
                o2 == outFile.rows[j]
            IN  /\ TextLess(OutText(o1, "iso3"), OutText(o2, "iso3")) => i < j
                /\ (/\ OutText(o1, "iso3") = OutText(o2, "iso3")
                    /\ IsIntText(OutText(o1, "year"))
                    /\ IsIntText(OutText(o2, "year"))
                    /\ ParseInt(OutText(o1, "year")) < ParseInt(OutText(o2, "year")))
                   => i < j

\* No cell of the table is a missing marker (NaN or pd.NA).
NoMarker(m) ==
    \A i \in 1..Len(m.rows), j \in 1..Len(m.cols) : ~IsNA(m.rows[i][j])

\* The rows of A, and of B, that have the key of the written row o.
RowsAOf(o) == {a \in RowsA : KeyA(a) = OutKey(o)}
RowsBOf(o) == {b \in RowsB : KeyB(b) = OutKey(o)}

\* Every row of A, and every row of B, with the key of the written row o has
\* the column c missing: no such column, no such row, or a missing cell.
MissingInBoth(o, c) ==
    /\ \A a \in RowsAOf(o) : TextA(a, c) = <<>>
    /\ \A b \in RowsBOf(o) : TextB(b, c) = <<>>

\* C11 (empty field, uniform missing representation): from the fill of line 98
\* on, the table holds no NaN and no pd.NA in any row or column, and the
\* returned table holds none; in the written file, a canonical column other
\* than the key that is missing in both sources for the key of a row is the
\* empty text in that row.
C11_UniformMissing ==
    /\ pc \in {"to_csv", "return", "done"} => NoMarker(merged)
    /\ Done =>
          /\ NoMarker(ret)
          /\ \A o \in OutRows :
                LET as == RowsAOf(o)
                    bs == RowsBOf(o)
                IN  \A c \in DataColumns :
                        (/\ \A a \in as : TextA(a, c) = <<>>
                         /\ \A b \in bs : TextB(b, c) = <<>>)
                        => OutText(o, c) = <<>>

\* C11 witness: a written row for which a column that both files have is
\* missing in both, and for which a column that no file has is missing.
C11_Witness ==
    /\ Done
    /\ \E o \in OutRows, c, d \in DataColumns :
          /\ HasColumn(csv1, column_mapping_new, c)
          /\ HasColumn(csv2, column_mapping_old, c)
          /\ MissingInBoth(o, c)
          /\ ~HasColumn(csv1, column_mapping_new, d)
          /\ ~HasColumn(csv2, column_mapping_old, d)
          /\ OutText(o, d) = <<>>
          /\ \E o2 \in OutRows : OutText(o2, c) # <<>>

\* C12 (idempotence): in a second run on the same two source files, the write
\* of line 101 leaves the output file with the content the first run gave it,
\* and the run ends as the first did: the same returned table (rows, values,
\* row order, column order), or the same exception.
C12_Idempotence ==
    /\ (prev # None /\ pc \in {"return", "done"}) => outFile = prev.file
    /\ (prev # None /\ pc \in {"done", "failed"}) =>
          /\ pc = prev.pc
          /\ ret = prev.ret
          /\ err = prev.err
          /\ outFile = prev.file

\* C12 witness: the second run has returned a table of three rows that come
\* from both files.
C12_Witness ==
    /\ prev # None
    /\ Done
    /\ Len(ret.rows) = 3
    /\ Len(csv1.rows) > 0
    /\ Len(csv2.rows) > 0

\* C13 as claimed: when both source files have an iso3 column and a year
\* column and every year is an integer, the run raises no exception, whatever
\* other columns are absent and whatever cells are missing, and it returns
\* with the output file written.
C13_MissingDataNoError ==
    (~LacksKeyColumn /\ ~BadYear) =>
        /\ pc # "failed"
        /\ err = "none"
        /\ Done => outFile # None

\* C14 as claimed: the merged table depends on the two source files only, so
\* a run that finds the output file of an earlier run returns the table the
\* earlier run returned; and the table is obtained without the file write:
\* a first run that has returned the table has written no file.  (The call of
\* merge_tb_data, made when the script is loaded, is the only way to the table
\* that the code offers.)
C14_Purity ==
    /\ (prev # None /\ Done) => ret = prev.ret
    /\ (prev = None /\ ret # None) => outFile = None

\* The table is never returned before the file has been written.
WriteBeforeResult == ret # None => outFile # None

\* The positions of the rows of the output, of A and of B that have the key k.
OutAt(k) == {i \in 1..Len(outFile.rows) : OutKey(outFile.rows[i]) = k}
AAt(k) == {i \in 1..Len(csv1.rows) : KeyA(csv1.rows[i]) = k}
BAt(k) == {i \in 1..Len(csv2.rows) : KeyB(csv2.rows[i]) = k}

\* The written row o holds, in every canonical column other than the key, the
\* text of the row a of A (of the row b of B), the empty text where that is
\* missing.
SameAsA(o, a) == \A c \in DataColumns : OutText(o, c) = TextA(a, c)
SameAsB(o, b) == \A c \in DataColumns : OutText(o, c) = TextB(b, c)

\* C15 as claimed: for a key of A only, the output holds exactly one row, and
\* it holds A's values; the same for a key of B only.
C15_Original ==
    Done =>
        /\ \A k \in KeysA \ KeysB :
              /\ Cardinality(OutAt(k)) = 1
              /\ \A i \in OutAt(k) : \E a \in RowsA :
                    KeyA(a) = k /\ SameAsA(outFile.rows[i], a)
        /\ \A k \in KeysB \ KeysA :
              /\ Cardinality(OutAt(k)) = 1
              /\ \A i \in OutAt(k) : \E b \in RowsB :
                    KeyB(b) = k /\ SameAsB(outFile.rows[i], b)

\* C15 (single-source keys), amended: for a key of A only, the output holds
\* as many rows as A has for the key, exactly one when A has the key once;
\* every such output row holds, in every non-key column, the values of a row
\* of A for the key (the empty text where A's value is missing), and every
\* row of A for the key is written.  The same for a key of B only.  No value
\* of the other source is in these rows.
C15_SingleSource ==
    Done =>
        /\ \A k \in KeysA \ KeysB :
              LET at == OutAt(k)
                  as == {a \in RowsA : KeyA(a) = k}
              IN  /\ Cardinality(at) = Cardinality(AAt(k))
                  /\ \A i \in at : \E a \in as : SameAsA(outFile.rows[i], a)
                  /\ \A a \in as : \E i \in at : SameAsA(outFile.rows[i], a)
        /\ \A k \in KeysB \ KeysA :
              LET at == OutAt(k)
                  bs == {b \in RowsB : KeyB(b) = k}
              IN  /\ Cardinality(at) = Cardinality(BAt(k))
                  /\ \A i \in at : \E b \in bs : SameAsB(outFile.rows[i], b)
                  /\ \A b \in bs : \E i \in at : SameAsB(outFile.rows[i], b)

\* C15 witness: a key of A only and a key of B only, each once in its file
\* and each with a value; A's row has a missing value in a column for which
\* B's row holds a value.
C15_Witness ==
    /\ Done
    /\ \E a \in RowsA, b \in RowsB, c, d \in DataColumns :
          /\ KeyA(a) \notin KeysB
          /\ KeyB(b) \notin KeysA
          /\ Cardinality(AAt(KeyA(a))) = 1
          /\ Cardinality(BAt(KeyB(b))) = 1
          /\ TextA(a, c) # <<>>
          /\ HasColumn(csv1, column_mapping_new, d)
          /\ TextA(a, d) = <<>>
          /\ TextB(b, d) # <<>>

\* The text the precedence rule gives for column c from a row a of A and a
\* row b of B: A's text unless it is missing, else B's.
Resolved(a, b, c) == IF TextA(a, c) # <<>> THEN TextA(a, c) ELSE TextB(b, c)

\* C16 (resolution per field): every written row of a key of both files comes
\* from a row a of A and a row b of B of that key, and holds in each canonical
\* column other than the key A's value where a has one and B's value where it
\* has none, column by column; every such pair of rows is written.
C16_PerField ==
    Done =>
        \A k \in KeysA \cap KeysB :
            /\ \A i \in OutAt(k) : \E a \in RowsA, b \in RowsB :
                  /\ KeyA(a) = k
                  /\ KeyB(b) = k
                  /\ \A c \in DataColumns :
                        OutText(outFile.rows[i], c) = Resolved(a, b, c)
            /\ \A a \in RowsA, b \in RowsB :
                  (KeyA(a) = k /\ KeyB(b) = k) =>
                      \E i \in OutAt(k) : \A c \in DataColumns :
                          OutText(outFile.rows[i], c) = Resolved(a, b, c)

\* C16 witness: one written row holds A's value in one column, where B holds
\* another value, and B's value in another column, where A has a missing cell.
C16_Witness ==
    /\ Done
    /\ \E o \in OutRows, a \in RowsA, b \in RowsB, c, d \in DataColumns :
          /\ KeyA(a) = OutKey(o)
          /\ KeyB(b) = OutKey(o)
          /\ TextA(a, c) # <<>>
          /\ TextB(b, c) # <<>>
          /\ TextA(a, c) # TextB(b, c)
          /\ OutText(o, c) = TextA(a, c)
          /\ HasColumn(csv1, column_mapping_new, d)
          /\ TextA(a, d) = <<>>
          /\ TextB(b, d) # <<>>
          /\ OutText(o, d) = TextB(b, d)

\* The text of the cell of row a of A under the column the mapping makes c,
\* as it stands in the file.
RawA(a, c) ==
    a[CHOOSE j \in 1..Len(csv1.header) :
         Lookup(column_mapping_new, csv1.header[j]) = c]

\* The text "0".
ZeroText == <<48>>

\* The written row o has a key of A, and in every row of A with that key the
\* column c, which A has, holds one of the texts.
AHolds(o, c, texts) ==
    /\ HasColumn(csv1, column_mapping_new, c)
    /\ \E a \in RowsA : KeyA(a) = OutKey(o)
    /\ \A a \in RowsA : KeyA(a) = OutKey(o) => RawA(a, c) \in texts

\* Some row of B with the key of the written row o holds a value of column c.
BHolds(o, c) ==
    \E b \in RowsB : KeyB(b) = OutKey(o) /\ TextB(b, c) # <<>>

\* C17 as claimed: where A's cell for a key and a column holds 0 or the empty
\* string and B holds a value for the same key and column, the written row
\* holds A's 0 or A's empty string, not B's value.
C17_ZeroAndEmptyPresent ==
    Done =>
        \A o \in OutRows, c \in DataColumns :
            (AHolds(o, c, {ZeroText, <<>>}) /\ BHolds(o, c))
            => \E a \in RowsA : KeyA(a) = OutKey(o) /\ OutText(o, c) = RawA(a, c)

\* The part of C17 about 0: A's 0 is written, not B's value.
ZeroIsPresent ==
    Done =>
        \A o \in OutRows, c \in DataColumns :
            (AHolds(o, c, {ZeroText}) /\ BHolds(o, c)) => OutText(o, c) = ZeroText

\* The label h is a key of the mapping.
IsKey(mapping, h) == \E k \in 1..Len(mapping) : mapping[k][1] = h

\* Column j of the file is ignored: its label is no key of the mapping and no
\* canonical name.
Ignored(file, mapping, j) ==
    /\ ~IsKey(mapping, file.header[j])
    /\ ~In(file.header[j], final_columns)

\* The file without its ignored columns.
Strip(file, mapping) ==
    LET Keep(j) == ~Ignored(file, mapping, j)
        idx == SelectSeq([j \in 1..Len(file.header) |-> j], Keep)
    IN  [header |-> [n \in 1..Len(idx) |-> file.header[idx[n]]],
         rows   |-> [i \in 1..Len(file.rows) |->
                       [n \in 1..Len(idx) |-> file.rows[i][idx[n]]]]]

\* The file with the cells of its ignored columns changed to text.
Alter(file, mapping, text) ==
    [file EXCEPT !.rows = [i \in 1..Len(file.rows) |->
        [j \in 1..Len(file.header) |->
            IF Ignored(file, mapping, j) THEN text ELSE file.rows[i][j]]]]

\* What a run on the files f1 and f2 ends with: the table it returns, or an
\* exception.
Outcome(f1, f2) ==
    IF ~ReadOk(f1, "year") \/ ~ReadOk(f2, "Year")
    THEN [ok |-> FALSE, table |-> None]
    ELSE LET dn == PadFrame(rename(read_csv(f1, "year"), column_mapping_new))
             do == PadFrame(rename(read_csv(f2, "Year"), column_mapping_old))
             left == SelectCols(do, final_columns)
             right == SelectCols(dn, final_columns)
         IN  IF MergeOk(left, right) /\ CombineAllOk(merge(left, right))
             THEN [ok |-> TRUE,
                   table |-> fillna(sort_values(Project(
                                 CombineLoop(merge(left, right), 1))))]
             ELSE [ok |-> FALSE, table |-> None]

\* The frame df holds the columns of the file under the names the mapping
\* gives them: a column whose label is a key of the mapping has the canonical
\* name the mapping gives, every other column has the label it had.
Renamed(df, file, mapping) ==
    \A j \in 1..Len(file.header) :
        /\ df.cols[j] = Lookup(mapping, file.header[j])
        /\ IsKey(mapping, file.header[j]) => In(df.cols[j], final_columns)
        /\ ~IsKey(mapping, file.header[j]) => df.cols[j] = file.header[j]

\* C18 (rename and drop): from the rename of line 60 (line 61) on, every column
\* of the newer (older) file that the mapping names has its canonical name;
\* and a run ends as a run on the same files without their ignored columns
\* ends, and as a run on the files with other text in those columns ends:
\* with the same returned table, or with an exception in each of them.
C18_RenameAndDrop ==
    /\ pc \in {"rename_old", "pad", "merge", "combine", "project", "sort",
                "fillna", "to_csv", "return", "done"} =>
          Renamed(df_new, csv1, column_mapping_new)
    /\ pc \in {"pad", "merge", "combine", "project", "sort",
                "fillna", "to_csv", "return", "done"} =>
          Renamed(df_old, csv2, column_mapping_old)
    /\ pc \in {"done", "failed"} =>
          LET s1 == Strip(csv1, column_mapping_new)
              s2 == Strip(csv2, column_mapping_old)
              a1 == Alter(csv1, column_mapping_new, <<>>)
              a2 == Alter(csv2, column_mapping_old, <<>>)
              os == Outcome(s1, s2)
              oa == Outcome(a1, a2)
          IN  /\ (s1 # csv1 \/ s2 # csv2) =>
                    /\ os.ok <=> Done
                    /\ Done => ret = os.table
              /\ (a1 # csv1 \/ a2 # csv2) =>
                    /\ oa.ok <=> Done
                    /\ Done => ret = oa.table

\* C18 witness: the newer file has an ignored column and a row, the older
\* file has mapped columns and a row, and the run has returned.
C18_Witness ==
    /\ Done
    /\ \E j \in 1..Len(csv1.header) : Ignored(csv1, column_mapping_new, j)
    /\ Strip(csv1, column_mapping_new) # csv1
    /\ Alter(csv1, column_mapping_new, <<>>) # csv1
    /\ \E j \in 1..Len(csv2.header) :
          /\ IsKey(column_mapping_old, csv2.header[j])
          /\ csv2.header[j] # Lookup(column_mapping_old, csv2.header[j])
    /\ Len(csv2.rows) > 0
    /\ Len(ret.rows) > 1

\* The frame df is the frame read from the file and renamed, padded: it has
\* every canonical column; a canonical column the renamed frame lacks is
\* pd.NA in every row; the columns of the renamed frame are there as they
\* were, with their labels, dtypes and cells, and no row is added or lost.
Padded(df, file, mapping, intcol) ==
    LET before == rename(read_csv(file, intcol), mapping)
    IN  /\ \A c \in Range(final_columns) : In(c, df.cols)
        /\ \A c \in Range(final_columns) :
              ~In(c, before.cols) =>
                  \A i \in 1..Len(df.rows) : df.rows[i][IndexOf(c, df.cols)] = PdNA
        /\ Len(df.rows) = Len(before.rows)
        /\ \A j \in 1..Len(before.cols) :
              /\ df.cols[j] = before.cols[j]
              /\ df.dtypes[j] = before.dtypes[j]
              /\ \A i \in 1..Len(df.rows) : df.rows[i][j] = before.rows[i][j]
        /\ \A j \in 1..Len(df.cols) :
              j > Len(before.cols) =>
                  In(df.cols[j], final_columns) /\ ~In(df.cols[j], before.cols)

\* C19 (pad): after the loop of lines 74-77 and before the join, each of the
\* two frames holds every canonical column; a canonical column its file did
\* not have is pd.NA in every row; the columns the file had are unchanged.
C19_Pad ==
    pc = "merge" =>
        /\ Padded(df_new, csv1, column_mapping_new, "year")
        /\ Padded(df_old, csv2, column_mapping_old, "Year")

\* C19 witness: before the join, both frames have rows, the newer file has no
\* iso3 column and the older file has a column that the newer one lacks.
C19_Witness ==
    /\ pc = "merge"
    /\ Len(df_new.rows) > 0
    /\ Len(df_old.rows) > 0
    /\ ~HasColumn(csv1, column_mapping_new, "iso3")
    /\ \A i \in 1..Len(df_new.rows) :
          df_new.rows[i][IndexOf("iso3", df_new.cols)] = PdNA
    /\ HasColumn(csv2, column_mapping_old, "region")

\* The statements of one run in their order.
Steps ==
    << "read_new", "read_old", "rename_new", "rename_old", "pad", "merge",
       "combine", "project", "sort", "fillna", "to_csv", "return", "done" >>

\* One step of a run keeps the order of the lifecycle: it goes on to the next
\* statement or raises; a file is read where its frame is first bound, the
\* newer one at line 5 and the older one at line 6, and the source files are
\* not written; the joined table is first bound at the join and changes only
\* in the join, the conflict resolution, the projection, the sort and the
\* fill; the output file changes at line 101 only, where it takes the table
\* as it is after the fill; after that the return value alone is set.
LifecycleStep ==
    /\ \/ pc' = "failed"
       \/ IndexOf(pc', Steps) = IndexOf(pc, Steps) + 1
    /\ csv1' = csv1 /\ csv2' = csv2
    /\ (df_new = None /\ df_new' # None) => pc = "read_new"
    /\ (df_old = None /\ df_old' # None) => pc = "read_old"
    /\ df_new' # df_new => pc \in {"read_new", "rename_new", "pad"}
    /\ df_old' # df_old => pc \in {"read_old", "rename_old", "pad"}
    /\ (merged = None /\ merged' # None) => pc = "merge"
    /\ merged' # merged =>
          pc \in {"merge", "combine", "project", "sort", "fillna"}
    /\ outFile' # outFile =>
          /\ pc = "to_csv"
          /\ outFile = None
          /\ outFile' = to_csv(merged)
          /\ merged = Outcome(csv1, csv2).table
    /\ pc \in {"to_csv", "return"} =>
          UNCHANGED <<csv1, csv2, df_new, df_old, merged, err>>
    /\ pc = "return" => (outFile' = outFile /\ outFile # None /\ ret' = merged)

\* C20 (lifecycle ordering): every step of a run is a step of the lifecycle:
\* read, rename, pad, outer join, conflict resolution, projection, sort,
\* fill, write, in that order and each once; the output file is written once,
\* by the last step that changes a table or a file, and the table is not
\* changed after the write.
C20_Lifecycle == [][LifecycleStep]_vars

\* C20 witness: a run on two files with rows has gone through every step;
\* the file holds the table that was returned.
C20_Witness ==
    /\ Done
    /\ Len(csv1.rows) = 2
    /\ Len(csv2.rows) = 1
    /\ merged = ret
    /\ outFile = to_csv(ret)

\* Two columns of the file have the same canonical name after the rename.
DuplicateCanonical(file, mapping) ==
    \E i, j \in 1..Len(file.header) :
        /\ i < j
        /\ Lookup(mapping, file.header[i]) = Lookup(mapping, file.header[j])
        /\ In(Lookup(mapping, file.header[i]), final_columns)

\* The two source files are well formed: each has an iso3 column and a year
\* column, no canonical column twice, every year is an integer and every row
\* has a country code.
WellFormed ==
    /\ ~LacksKeyColumn
    /\ ~DuplicateCanonical(csv1, column_mapping_new)
    /\ ~DuplicateCanonical(csv2, column_mapping_old)
    /\ ~BadYear
    /\ \A a \in RowsA : TextA(a, "iso3") # <<>>
    /\ \A b \in RowsB : TextB(b, "iso3") # <<>>

\* C21 (termination): every run that goes on while it can comes to its end,
\* by returning or by raising; and a run on two well-formed source files
\* comes to the state in which the output file is written and the table is
\* returned.
C21_Termination ==
    /\ <>Ended
    /\ WellFormed => <>(Done /\ outFile # None /\ ret # None)

\* C21 witness: a run on two well-formed files with rows has returned a table
\* of two rows or more.
C21_Witness ==
    /\ Done
    /\ WellFormed
    /\ Len(csv1.rows) > 0
    /\ Len(csv2.rows) > 0
    /\ outFile # None
    /\ Len(ret.rows) > 1

\* The number of rows the join gives for the key k: the product of the
\* numbers of rows of A and of B with the key when both have it, the number
\* of rows of the one source that has it otherwise.
JoinCount(k) ==
    IF k \in KeysA /\ k \in KeysB
    THEN Cardinality(AAt(k)) * Cardinality(BAt(k))
    ELSE Cardinality(AAt(k)) + Cardinality(BAt(k))

Iso3Cell(m, i) == m.rows[i][IndexOf("iso3", m.cols)]

\* C23 (sort before fill): when the table has been sorted and is not yet
\* filled, a missing iso3 is still the missing marker, never the empty
\* string, and every row with a missing iso3 comes after every row with a
\* present one; the written file keeps that order, so its rows with an empty
\* iso3 are at the end, after every row with a country code.
C23_SortBeforeFill ==
    /\ pc = "fillna" =>
          \A i, j \in 1..Len(merged.rows) :
              /\ Iso3Cell(merged, i) # Str(<<>>)
              /\ (i < j /\ IsNA(Iso3Cell(merged, i))) => IsNA(Iso3Cell(merged, j))
    /\ Done =>
          \A i, j \in 1..Len(outFile.rows) :
              (i < j /\ OutText(outFile.rows[i], "iso3") = <<>>)
              => OutText(outFile.rows[j], "iso3") = <<>>

\* C23 witness: the older file, whose rows the join puts first, has no iso3
\* column; the newer file has a row with a country code; the file is written
\* with the country code in its first row and an empty iso3 in its last.
C23_Witness ==
    /\ Done
    /\ ~HasColumn(csv2, column_mapping_old, "iso3")
    /\ Len(csv2.rows) > 0
    /\ \E a \in RowsA : TextA(a, "iso3") # <<>>
    /\ OutText(outFile.rows[1], "iso3") # <<>>
    /\ OutText(outFile.rows[Len(outFile.rows)], "iso3") = <<>>

\* C24 (returned table = written table): the table is not changed between
\* the write and the return; the returned table is the one the file was
\* written from: the file's header is its columns, the canonical ones in
\* their order, and the file's rows are its rows in its order, each field the
\* text of the cell, the empty text for a cell filled with ''.
C24_ReturnedIsWritten ==
    /\ pc = "return" => outFile = to_csv(merged)
    /\ Done =>
          /\ ret = merged
          /\ outFile = to_csv(ret)
          /\ ret.cols = outFile.header
          /\ Len(ret.rows) = Len(outFile.rows)
          /\ \A i \in 1..Len(ret.rows), j \in 1..Len(ret.cols) :
                /\ outFile.rows[i][j] = FormatCell(ret.rows[i][j])
                /\ outFile.rows[i][j] = <<>> <=> ret.rows[i][j] = Str(<<>>)

\* C24 witness: a table of two rows or more, one of them with an empty iso3,
\* has been written and returned.
C24_Witness ==
    /\ Done
    /\ Len(ret.rows) > 1
    /\ \E i \in 1..Len(ret.rows) : Iso3Cell(ret, i) = Str(<<>>)
    /\ \E i \in 1..Len(ret.rows) : Iso3Cell(ret, i) # Str(<<>>)
    /\ Len(outFile.rows) = Len(ret.rows)

\* One step of a run leaves the two input files as they are, and a step that
\* raises leaves the output file as it is; of the three files a step changes
\* the output file at most.
FrameStep ==
    /\ csv1' = csv1
    /\ csv2' = csv2
    /\ pc' = "failed" => outFile' = outFile

\* C25 (frame): no step of a run, of a run that returns and of a run that
\* raises, changes the content of an input file; the output file is the only
\* file a run changes.
C25_Frame == [][FrameStep]_vars

\* C25 witness: a run on two files with rows has read both files and has
\* raised at the join.
C25_Witness ==
    /\ pc = "failed"
    /\ df_new # None
    /\ df_old # None
    /\ Len(csv1.rows) > 0
    /\ Len(csv2.rows) > 0
    /\ outFile = None

\* ---------------------------------------------------------------------------
\* The dashboard's reader of the combined file (app.py, load_data).
\* ---------------------------------------------------------------------------

\* app.py lines 14-37: the columns= mapping of df.rename in load_data.
load_data_columns ==
    <<
       <<"country", "country">>,
       <<"iso2", "iso2">>,
       <<"iso3", "iso3">>,
       <<"iso_numeric", "iso_num">>,
       <<"region", "region">>,
       <<"year", "year">>,
       <<"population", "population">>,
       <<"incidence_rate", "tb_incidence_100k">>,
       <<"incidence_rate_lo", "tb_incidence_100k_low">>,
       <<"incidence_rate_hi", "tb_incidence_100k_high">>,
       <<"incidence_num", "tb_incident_cases_total">>,
       <<"incidence_num_lo", "tb_incident_cases_low">>,
       <<"incidence_num_hi", "tb_incident_cases_high">>,
       <<"mort_rate_no_hiv", "tb_mortality_100k">>,
       <<"mort_rate_no_hiv_lo", "tb_mortality_100k_low">>,
       <<"mort_rate_no_hiv_hi", "tb_mortality_100k_high">>,
       <<"hiv_in_tb_percent", "hiv_in_tb_percent">>,
       <<"hiv_in_tb_percent_lo", "hiv_in_tb_percent_lo">>,
       <<"hiv_in_tb_percent_hi", "hiv_in_tb_percent_hi">>,
       <<"detection_rate", "detection_rate">>,
       <<"detection_rate_lo", "detection_rate_lo">>,
       <<"detection_rate_hi", "detection_rate_hi">>
    >>

\* A reader that keeps the names of the file.
load_data_names_raw(header) == header

\* app.py lines 12-14: the column names of the frame load_data returns for a
\* file with this header.
load_data_names(header) ==
    [j \in 1..Len(header) |-> Lookup(load_data_columns, header[j])]

\* The keys of the dashboard's mapping.
LoadDataKeys == {load_data_columns[i][1] : i \in 1..Len(load_data_columns)}

\* Every canonical column name is a key of the dashboard's mapping.
LoadDataCoversCanonical ==
    \A i \in 1..Len(final_columns) : final_columns[i] \in LoadDataKeys

\* No two canonical columns get the same display name.
LoadDataInjective ==
    \A i, j \in 1..Len(load_data_columns) :
        (In(load_data_columns[i][1], final_columns)
           /\ In(load_data_columns[j][1], final_columns)
           /\ load_data_columns[i][2] = load_data_columns[j][2])
        => load_data_columns[i][1] = load_data_columns[j][1]

\* C26 (consumer schema): every column name of the written file is a key of
\* the dashboard's rename mapping, the mapping gives no two canonical columns
\* the same display name, and the frame the dashboard loads has its
\* tb_mortality_100k column at the place of mort_rate_no_hiv and its
\* population column at the place of population.
C26_ConsumerSchema ==
    /\ LoadDataCoversCanonical
    /\ LoadDataInjective
    /\ Done =>
          LET names == load_data_names(outFile.header)
          IN  /\ \A j \in 1..Len(outFile.header) : outFile.header[j] \in LoadDataKeys
              /\ \A i, j \in 1..Len(names) : names[i] = names[j] => i = j
              /\ In("tb_mortality_100k", names)
              /\ In("population", names)
              /\ IndexOf("tb_mortality_100k", names)
                    = IndexOf("mort_rate_no_hiv", outFile.header)
              /\ IndexOf("population", names)
                    = IndexOf("population", outFile.header)

\* C26 witness: a written file with rows whose mort_rate_no_hiv column the
\* dashboard shows under the name tb_mortality_100k.
C26_Witness ==
    /\ Done
    /\ Len(outFile.rows) > 0
    /\ Len(load_data_names(outFile.header)) = Len(final_columns)
    /\ load_data_names(outFile.header)[IndexOf("mort_rate_no_hiv", outFile.header)]
          = "tb_mortality_100k"

\* ---------------------------------------------------------------------------
\* The Interactive Data Explorer's custom query (app.py lines 842-893).
\* A query text is a sequence of characters, each a one-character string.
\* ---------------------------------------------------------------------------

\* The longest query text of the model.
MaxQuery == 4

\* The characters a query text is typed from.
QueryChars == {"o", "O", "s", "y", ".", "e", "x", "c"}

\* The query texts of up to MaxQuery characters.
Queries == UNION {[1..n -> QueryChars] : n \in 0..MaxQuery}

Uppercase ==
    <<"A", "B", "C", "D", "E", "F", "G", "H", "I", "J", "K", "L", "M",
      "N", "O", "P", "Q", "R", "S", "T", "U", "V", "W", "X", "Y", "Z">>

Lowercase ==
    <<"a", "b", "c", "d", "e", "f", "g", "h", "i", "j", "k", "l", "m",
      "n", "o", "p", "q", "r", "s", "t", "u", "v", "w", "x", "y", "z">>

\* A text left as it was typed.
lower_none(text) == text

\* str.lower() (line 846).
lower(text) ==
    [i \in 1..Len(text) |->
        IF In(text[i], Uppercase)
        THEN Lowercase[IndexOf(text[i], Uppercase)]
        ELSE text[i]]

\* Python's "keyword in text" for strings: keyword is a substring of text.
Contains(text, keyword) ==
    \E i \in 0..(Len(text) - Len(keyword)) :
        SubSeq(text, i + 1, i + Len(keyword)) = keyword

\* Line 846: the list of keywords.
keywords ==
    << <<"i", "m", "p", "o", "r", "t">>, <<"e", "x", "e", "c">>,
       <<"e", "v", "a", "l">>, <<"o", "s", ".">>, <<"s", "y", "s", ".">> >>

\* Line 846: any(keyword in query.lower() for keyword in [...]).
Unsafe(text) ==
    \E k \in 1..Len(keywords) : Contains(lower(text), keywords[k])

\* The outcomes of explorer_df.query(query): it raises, or it returns a frame
\* without rows or with rows.
QueryOutcomes == {"raises", "empty", "rows"}

\* The dashboard before the explorer has run: the query box holds its default,
\* the empty text.  The merge is not running.
InitExplorer ==
    /\ csv1 = None
    /\ csv2 = None
    /\ outFile = None
    /\ pc = "done"
    /\ err = "none"
    /\ df_new = None
    /\ df_old = None
    /\ merged = None
    /\ ret = None
    /\ prev = None
    /\ query = <<>>
    /\ step = "if"
    /\ evaluated = FALSE
    /\ shown = {}
    /\ query_results = "unbound"

\* Line 844: if query:
If ==
    /\ step = "if"
    /\ step' = IF query # <<>> THEN "guard" ELSE "end"
    /\ UNCHANGED <<query, evaluated, shown, query_results>>
    /\ UNCHANGED <<csv1, csv2, outFile, pc, err, df_new, df_old, merged, ret, prev>>

\* The query is evaluated whatever its text.
GuardOff ==
    /\ step = "guard"
    /\ step' = "query"
    /\ UNCHANGED <<query, evaluated, shown, query_results>>
    /\ UNCHANGED <<csv1, csv2, outFile, pc, err, df_new, df_old, merged, ret, prev>>

\* Lines 846-847: the keyword test, raising ValueError.
Guard ==
    /\ step = "guard"
    /\ step' = IF Unsafe(query) THEN "except" ELSE "query"
    /\ UNCHANGED <<query, evaluated, shown, query_results>>
    /\ UNCHANGED <<csv1, csv2, outFile, pc, err, df_new, df_old, merged, ret, prev>>

\* Line 849: query_results = explorer_df.query(query)
Query ==
    /\ step = "query"
    /\ evaluated' = TRUE
    /\ \E o \in QueryOutcomes :
          IF o = "raises"
          THEN /\ step' = "except"
               /\ query_results' = query_results
          ELSE /\ step' = "write"
               /\ query_results' = o
    /\ UNCHANGED <<query, shown>>
    /\ UNCHANGED <<csv1, csv2, outFile, pc, err, df_new, df_old, merged, ret, prev>>

\* Line 850: st.write(query_results)
Write ==
    /\ step = "write"
    /\ shown' = shown \cup {"results"}
    /\ step' = "branch"
    /\ UNCHANGED <<query, evaluated, query_results>>
    /\ UNCHANGED <<csv1, csv2, outFile, pc, err, df_new, df_old, merged, ret, prev>>

\* Lines 852-889: the three charts of a result with rows; building one of
\* them may raise.
Charts ==
    /\ step = "branch"
    /\ query_results = "rows"
    /\ \E drawn \in BOOLEAN :
          IF drawn
          THEN /\ shown' = shown \cup {"charts"}
               /\ step' = "end"
          ELSE /\ shown' = shown
               /\ step' = "except"
    /\ UNCHANGED <<query, evaluated, query_results>>
    /\ UNCHANGED <<csv1, csv2, outFile, pc, err, df_new, df_old, merged, ret, prev>>

\* Lines 890-891: st.warning for a result without rows.
Warning ==
    /\ step = "branch"
    /\ query_results = "empty"
    /\ shown' = shown \cup {"warning"}
    /\ step' = "end"
    /\ UNCHANGED <<query, evaluated, query_results>>
    /\ UNCHANGED <<csv1, csv2, outFile, pc, err, df_new, df_old, merged, ret, prev>>

\* Lines 892-893: except Exception: st.error(...)
Except ==
    /\ step = "except"
    /\ shown' = shown \cup {"error"}
    /\ step' = "end"
    /\ UNCHANGED <<query, evaluated, query_results>>
    /\ UNCHANGED <<csv1, csv2, outFile, pc, err, df_new, df_old, merged, ret, prev>>

\* The texts one edit away from a text: one more character at its end, its
\* last character deleted, or the box cleared.
Edits(text) ==
    {Append(text, c) : c \in IF Len(text) < MaxQuery THEN QueryChars ELSE {}}
      \cup (IF text = <<>> THEN {} ELSE {SubSeq(text, 1, Len(text) - 1), <<>>})

\* Line 843: the user changes the text of st.text_area and the script runs
\* again from an empty page.  A run depends on the text alone, so that edits
\* of one character reach every run that a change to any text of Queries
\* reaches.
TextArea ==
    /\ step = "end"
    /\ \E q \in Edits(query) : query' = q
    /\ step' = "if"
    /\ evaluated' = FALSE
    /\ shown' = {}
    /\ query_results' = "unbound"
    /\ UNCHANGED <<csv1, csv2, outFile, pc, err, df_new, df_old, merged, ret, prev>>

NextExplorer ==
    \/ If \/ Guard \/ Query \/ Write \/ Charts \/ Warning \/ Except \/ TextArea

SpecExplorer == InitExplorer /\ [][NextExplorer]_vars

\* The text has one of the five keywords in it, whatever the case of its
\* letters: at some place the characters of the text, each taken in lower
\* case, are the characters of the keyword.
HasKeyword(text) ==
    \E k \in 1..Len(keywords) :
        \E i \in 0..(Len(text) - Len(keywords[k])) :
            \A j \in 1..Len(keywords[k]) :
                \/ text[i + j] = keywords[k][j]
                \/ /\ In(text[i + j], Uppercase)
                   /\ Lowercase[IndexOf(text[i + j], Uppercase)] = keywords[k][j]

\* The script has run to its end on this text without query_results bound:
\* the keyword test raised, or explorer_df.query raised.
RaisedBeforeResults == step = "end" /\ query # <<>> /\ query_results = "unbound"

\* C27 (query guard): a query text with import, exec, eval, os. or sys. in it,
\* in any case of letters, is never evaluated; such a query, and a query whose
\* evaluation raises, ends with the error message on the page and without
\* results; an empty text is neither evaluated nor answered with an error.
C27_QueryGuard ==
    /\ HasKeyword(query) => ~evaluated /\ "results" \notin shown
    /\ (HasKeyword(query) /\ step = "end") => shown = {"error"}
    /\ (step = "except" /\ query_results = "unbound") => "results" \notin shown
    /\ RaisedBeforeResults => shown = {"error"}
    /\ query = <<>> => ~evaluated /\ shown = {}

\* C27 witness: the text "Os." has been typed and the script has run to its
\* end: the error message is on the page and nothing was evaluated.
C27_Witness ==
    /\ step = "end"
    /\ query = <<"O", "s", ".">>
    /\ shown = {"error"}
    /\ ~evaluated

\* The mapping has 22 entries, no two with the same source name or the same
\* target, and its targets are the names of final_columns.
OntoCanonical(mapping) ==
    /\ Len(mapping) = Len(final_columns)
    /\ \A i, j \in 1..Len(mapping) :
          (mapping[i][1] = mapping[j][1] \/ mapping[i][2] = mapping[j][2]) => i = j
    /\ {mapping[i][2] : i \in 1..Len(mapping)} = Range(final_columns)

NewOntoCanonical == OntoCanonical(column_mapping_new)

OldOntoCanonical == OntoCanonical(column_mapping_old)

\* Two columns of the file with different labels, both keys of the mapping,
\* have different names in the renamed frame.
MappedStayApart(file, mapping, df) ==
    \A i, j \in 1..Len(file.header) :
        (file.header[i] # file.header[j]
           /\ IsKey(mapping, file.header[i]) /\ IsKey(mapping, file.header[j]))
        => df.cols[i] # df.cols[j]

\* C28 (bijections): column_mapping_new and column_mapping_old have 22 entries
\* each, with pairwise distinct targets that are together the names of
\* final_columns; after the two renames no two mapped columns of a source
\* have the same canonical name.
C28_Bijections ==
    /\ Len(final_columns) = 22
    /\ NewOntoCanonical
    /\ OldOntoCanonical
    /\ pc = "pad" => /\ MappedStayApart(csv1, column_mapping_new, df_new)
                     /\ MappedStayApart(csv2, column_mapping_old, df_old)

\* C28 witness: both frames have been renamed, each from a file with at least
\* three mapped columns.
C28_Witness ==
    /\ pc = "pad"
    /\ Cardinality({j \in 1..Len(csv1.header) :
                       IsKey(column_mapping_new, csv1.header[j])}) >= 3
    /\ Cardinality({j \in 1..Len(csv2.header) :
                       IsKey(column_mapping_old, csv2.header[j])}) >= 3
    /\ In("region", df_new.cols)
    /\ In("region", df_old.cols)

\* Column j of the file has a canonical name as its label, and the label is
\* no key of the mapping.
RawCanonical(file, mapping, j) ==
    /\ In(file.header[j], final_columns)
    /\ ~IsKey(mapping, file.header[j])

\* The renamed frame keeps every such column under its label.
RawKept(file, mapping, df) ==
    \A j \in 1..Len(file.header) :
        RawCanonical(file, mapping, j) => df.cols[j] = file.header[j]

\* A canonical name that the file has under its mapped label and under its
\* own label is the label of two columns of the renamed frame.
RawAndMappedTwice(file, mapping, df) ==
    \A i, j \in 1..Len(file.header) :
        (/\ RawCanonical(file, mapping, j)
         /\ IsKey(mapping, file.header[i])
         /\ Lookup(mapping, file.header[i]) = file.header[j])
        => Positions(file.header[j], df.cols) = IF i < j THEN <<i, j>> ELSE <<j, i>>

\* A key column the older file has under its canonical label only is the key
\* column of the join: every key value of the frame is a key value of a joined
\* row.
RawKeyJoined ==
    \A j \in 1..Len(csv2.header) :
        (/\ RawCanonical(csv2, column_mapping_old, j)
         /\ In(csv2.header[j], on)
         /\ Len(Positions(csv2.header[j], df_old.cols)) = 1)
        => \A i \in 1..Len(df_old.rows) :
              \E m \in 1..Len(merged.rows) :
                  merged.rows[m][IndexOf(csv2.header[j], merged.cols)] = df_old.rows[i][j]

\* C29 (canonical raw labels): a column whose label is a canonical name and
\* no key of its source's mapping is kept by the rename and is that canonical
\* column in the join; when the source has the mapped label of the same
\* canonical name too, its renamed frame has two columns of that name.
C29_RawCanonicalKept ==
    /\ pc = "pad" => /\ RawKept(csv1, column_mapping_new, df_new)
                     /\ RawKept(csv2, column_mapping_old, df_old)
                     /\ RawAndMappedTwice(csv1, column_mapping_new, df_new)
                     /\ RawAndMappedTwice(csv2, column_mapping_old, df_old)
    /\ pc = "combine" => RawKeyJoined

\* C29 witness: the older file has a Region column and a region column, and
\* both have gone through the join as region_old.
C29_Witness ==
    /\ pc = "failed"
    /\ merged # None
    /\ In(REGION_OLD, csv2.header)
    /\ In("region", csv2.header)
    /\ Len(merged.rows) > 0
    /\ Len(Positions("region" \o suffixes[1], merged.cols)) = 2

=============================================================================
